---- MODULE Spec2Model ----
(***************************************************************************)
(* Model of movie_bot.py: a Telegram bot that stores message references    *)
(* under a movie code (table movie_items), copies every stored message of  *)
(* a code to whoever sends /start <code>, and deletes the copies after     *)
(* AUTO_DELETE_SECONDS.                                                    *)
(*                                                                         *)
(* Handlers are coroutines.  A handler runs atomically from one await that *)
(* reads or writes shared state to the next one, so every action below is  *)
(* one such segment.  The code takes no lock and keeps no queue of its     *)
(* own, so handlers may interleave at these points; delete_later tasks     *)
(* always run beside the handlers.                                         *)
(*                                                                         *)
(* Time is counted in ticks of 0.5 s, the smallest duration in the code.   *)
(* Transport and database calls take no model time; only asyncio.sleep     *)
(* advances the clock.                                                     *)
(***************************************************************************)
EXTENDS Integers, Sequences, FiniteSets, TLC

\* ---------------------------------------------------------------- bounds
MaxProcs == 2      \* handlers that may be in flight at the same time
MaxCmds == 3       \* commands received in one behaviour
MaxBoots == 3      \* starts of the process (runs of init_db)
MaxLegacy == 2     \* rows of the legacy table movies

\* ------------------------------------------------------ program constants
AUTO_DELETE_SECONDS == 120
TicksPerSecond == 2
ThrottleTicks == 1
ADMIN_ID == 1

DeleteDelayTicks == AUTO_DELETE_SECONDS * TicksPerSecond

\* ------------------------------------------------------------ input sets
Procs == 1..MaxProcs
Users == {ADMIN_ID, 2}
\* effective_chat.id: the admin writes in the storage chat 7, everyone else
\* in the private chat whose id is the user's id.
ChatOf(u) == IF u = ADMIN_ID THEN 7 ELSE u
Chats == {ChatOf(u) : u \in Users}
Codes == {"a", "b"}
ArgSets == {<<>>} \cup {<<c>> : c \in Codes}
NoReply == 0
ReplyTargets == {NoReply, 1, 2}
\* reply_to_message.caption: message 1 carries no caption, message 2 one.
RawCaption(m) == IF m = 2 THEN "cap" ELSE "none"
CaptionOf(m) == IF RawCaption(m) = "none" THEN "" ELSE RawCaption(m)

VARIABLES
    store,      \* table movie_items: a set of rows
    seq,        \* sqlite_sequence of movie_items (AUTOINCREMENT)
    pc,         \* per handler slot: where the coroutine stands
    cmd,        \* per handler slot: the update being handled
    loc,        \* per handler slot: the handler's local variables
    replies,    \* per handler slot: texts the handler sent to its chat
    tasks,      \* delete_later tasks created by asyncio.create_task
    nextMid,    \* transport: last message id handed out per chat
    now,        \* clock, in ticks
    ncmds,      \* commands received so far
    hist,       \* history: per code, the references saved since its last clear
    movies,     \* the legacy table movies: its rows, or NoTable
    boot        \* history: the runs of init_db and the legacy rows it first met

vars == <<store, seq, pc, cmd, loc, replies, tasks, nextMid, now, ncmds, hist,
          movies, boot>>

\* ---------------------------------------------------------------- helpers
Min(S) == CHOOSE x \in S : \A y \in S : x <= y

RECURSIVE SortById(_)
SortById(S) ==
    IF S = {} THEN <<>>
    ELSE LET r == CHOOSE x \in S : \A y \in S : x.id <= y.id
         IN <<r>> \o SortById(S \ {r})

RECURSIVE SortByIdDesc(_)
SortByIdDesc(S) ==
    IF S = {} THEN <<>>
    ELSE LET r == CHOOSE x \in S : \A y \in S : x.id >= y.id
         IN <<r>> \o SortByIdDesc(S \ {r})

\* The rows of table S with WHERE movie_id = ?
RowsIn(S, movie_id) == {r \in S : r.movie_id = movie_id}
RowsOf(movie_id) == RowsIn(store, movie_id)

\* SELECT ... WHERE movie_id = ? ORDER BY id ASC
FindByCodeDesc(movie_id) == SortByIdDesc(RowsOf(movie_id))
FindByCode(movie_id) == SortById(RowsOf(movie_id))

\* SELECT COUNT(*) ... WHERE movie_id = ?
CountByCode(movie_id) == Cardinality(RowsOf(movie_id))

\* INSERT INTO movie_items: id INTEGER PRIMARY KEY AUTOINCREMENT
NewRowSwapped(movie_id, from_chat_id, from_message_id, caption) ==
    [id |-> seq + 1, movie_id |-> movie_id, from_chat_id |-> from_message_id,
     from_message_id |-> from_chat_id, caption |-> caption]
NewRowDedup(movie_id, from_chat_id, from_message_id, caption) ==
    LET same == {r \in store : /\ r.movie_id = movie_id
                                /\ r.from_chat_id = from_chat_id
                                /\ r.from_message_id = from_message_id}
    IN IF same # {} THEN CHOOSE r \in same : TRUE
       ELSE [id |-> seq + 1, movie_id |-> movie_id, from_chat_id |-> from_chat_id,
             from_message_id |-> from_message_id, caption |-> caption]
NewRow(movie_id, from_chat_id, from_message_id, caption) ==
    [id |-> seq + 1, movie_id |-> movie_id, from_chat_id |-> from_chat_id,
     from_message_id |-> from_message_id, caption |-> caption]

Ref(r) == [chat |-> r.from_chat_id, msg |-> r.from_message_id]
RefsOf(rows) == [i \in 1..Len(rows) |-> Ref(rows[i])]

Reply(kind, code, n) == [kind |-> kind, code |-> code, n |-> n]

\* An update: update_id grows by one with every update the bot receives.
NoCmd == [name |-> "none", user |-> 0, chat |-> 0, args |-> <<>>, reply_to |-> NoReply,
          update_id |-> 0]
Cmd(name, u, args, rt) ==
    [name |-> name, user |-> u, chat |-> ChatOf(u), args |-> args, reply_to |-> rt,
     update_id |-> ncmds + 1]

\* rows, idx, sent_messages, count: the handlers' local variables; wake: the
\* end of the handler's asyncio.sleep.  History, read by no action:
\* copies (the copy_message calls of the run), removed (the rows the DELETE
\* of a clear took away), snap (hist of the code when the rows were fetched).
NoLoc == [rows |-> <<>>, idx |-> 0, sent_messages |-> <<>>, count |-> 0, wake |-> 0,
          copies |-> <<>>, removed |-> 0, snap |-> <<>>]

\* An update is handled in the first slot that holds no running handler.
Ended(p) == pc[p] \in {"idle", "done", "raised"}
Free(p) == /\ ncmds < MaxCmds
           /\ Ended(p)
           /\ \A q \in Procs : q < p => ~Ended(q)

\* ---------------------------------------------------------------- init_db
\* sqlite_master holds no table named movies.
NoTable == [exists |-> FALSE, rows |-> <<>>]
\* A row of the legacy table: movie_id, from_chat_id, from_message_id, caption
\* (the caption may be NULL, written "none").
LegacyRows ==
    {[movie_id |-> c, from_chat_id |-> ChatOf(ADMIN_ID), from_message_id |-> m,
      caption |-> RawCaption(m)] : c \in Codes, m \in ReplyTargets \ {NoReply}}
RECURSIVE SeqsUpTo(_, _)
SeqsUpTo(S, n) ==
    IF n = 0 THEN {<<>>}
    ELSE LET shorter == SeqsUpTo(S, n - 1)
         IN shorter \cup {Append(q, x) : q \in shorter, x \in S}
LegacyTables ==
    {NoTable} \cup {[exists |-> TRUE, rows |-> q] : q \in SeqsUpTo(LegacyRows, MaxLegacy)}

\* The statement of the try block that raises: the SELECTs (nothing was
\* inserted yet), the k-th INSERT, or the DROP TABLE; NoFail when none does.
NoFail == [stmt |-> "none", k |-> 0]
FailPoints(old_rows) ==
    {[stmt |-> "select", k |-> 0], [stmt |-> "drop", k |-> 0]}
        \cup {[stmt |-> "insert", k |-> i] : i \in 1..Len(old_rows)}
\* How many of old_rows were inserted when the try block was left.
Inserted(old_rows, fail) ==
    IF fail.stmt = "select" THEN 0
    ELSE IF fail.stmt = "insert" THEN fail.k - 1
    ELSE Len(old_rows)

\* (r[0], r[1], r[2], r[3] or "") as the row with the given id
MigratedRow(r, id) ==
    [id |-> id, movie_id |-> r.movie_id, from_chat_id |-> r.from_chat_id,
     from_message_id |-> r.from_message_id,
     caption |-> IF r.caption = "none" THEN "" ELSE r.caption]

RECURSIVE HistAfter(_, _, _)
HistAfter(h, old_rows, n) ==
    IF n = 0 THEN h
    ELSE LET g == HistAfter(h, old_rows, n - 1)
             r == old_rows[n]
         IN [g EXCEPT ![r.movie_id] =
                 Append(@, [chat |-> r.from_chat_id, msg |-> r.from_message_id])]

\* DROP TABLE IF EXISTS movies, reached only when nothing raised before it
Dropped(table, fail) == IF fail = NoFail THEN NoTable ELSE table

\* One run of init_db at the start of the process.  CREATE TABLE IF NOT
\* EXISTS keeps an existing movie_items; the legacy rows are inserted one
\* by one and the legacy table is dropped; an exception on the way is passed
\* over, and the commit after it keeps what was inserted before it.
InitDb(fail) ==
    /\ boot.runs < MaxBoots
    /\ IF movies = NoTable
       THEN /\ fail \in {[stmt |-> "select", k |-> 0], NoFail}
            /\ UNCHANGED <<store, seq, hist, movies>>
       ELSE /\ fail \in FailPoints(movies.rows) \cup {NoFail}
            /\ LET n == Inserted(movies.rows, fail) IN
               /\ store' = store \cup {MigratedRow(movies.rows[i], seq + i) : i \in 1..n}
               /\ seq' = seq + n
               /\ hist' = HistAfter(hist, movies.rows, n)
               /\ movies' = Dropped(movies, fail)
    /\ boot' = [boot EXCEPT !.runs = @ + 1]
    /\ UNCHANGED <<pc, cmd, loc, replies, tasks, nextMid, now, ncmds>>

\* The database as an older version of the bot left it: no movie_items,
\* and a legacy table or none.
BootInit ==
    /\ store = {}
    /\ seq = 0
    /\ pc = [p \in Procs |-> "idle"]
    /\ cmd = [p \in Procs |-> NoCmd]
    /\ loc = [p \in Procs |-> NoLoc]
    /\ replies = [p \in Procs |-> <<>>]
    /\ tasks = <<>>
    /\ nextMid = [c \in Chats |-> 0]
    /\ now = 0
    /\ ncmds = 0
    /\ hist = [c \in Codes |-> <<>>]
    /\ movies \in LegacyTables
    /\ boot = [runs |-> 0, orig |-> movies.rows]

BootNext == \E fail \in FailPoints(movies.rows) \cup {NoFail} : InitDb(fail)

BootSpec == BootInit /\ [][BootNext]_vars

IsAdminNonZero(user_id) == user_id # 0
IsAdmin(user_id) == user_id = ADMIN_ID

Init ==
    /\ store = {}
    /\ seq = 0
    /\ pc = [p \in Procs |-> "idle"]
    /\ cmd = [p \in Procs |-> NoCmd]
    /\ loc = [p \in Procs |-> NoLoc]
    /\ replies = [p \in Procs |-> <<>>]
    /\ tasks = <<>>
    /\ nextMid = [c \in Chats |-> 0]
    /\ now = 0
    /\ ncmds = 0
    /\ hist = [c \in Codes |-> <<>>]
    /\ movies = NoTable
    /\ boot = [runs |-> 1, orig |-> <<>>]

\* Ends handler p with one reply and no other effect.
ReplyAndReturn(p, c, text) ==
    /\ pc' = [pc EXCEPT ![p] = "done"]
    /\ cmd' = [cmd EXCEPT ![p] = c]
    /\ loc' = [loc EXCEPT ![p] = NoLoc]
    /\ replies' = [replies EXCEPT ![p] = <<text>>]
    /\ ncmds' = ncmds + 1
    /\ UNCHANGED <<store, seq, tasks, nextMid, now, hist, movies, boot>>

\* ------------------------------------------------------------------ /save
SaveHandler(p, u, args, rt) ==
    /\ Free(p)
    /\ LET c == Cmd("save", u, args, rt) IN
       IF ~IsAdmin(u) THEN ReplyAndReturn(p, c, Reply("unauthorized", "", 0))
       ELSE IF args = <<>> THEN ReplyAndReturn(p, c, Reply("usage", "", 0))
       ELSE IF rt = NoReply THEN ReplyAndReturn(p, c, Reply("usage_reply", "", 0))
       ELSE LET row == NewRow(args[1], c.chat, rt, CaptionOf(rt)) IN
            /\ store' = store \cup {row}
            /\ seq' = row.id
            /\ hist' = [hist EXCEPT ![args[1]] = Append(@, Ref(row))]
            /\ pc' = [pc EXCEPT ![p] = "done"]
            /\ cmd' = [cmd EXCEPT ![p] = c]
            /\ loc' = [loc EXCEPT ![p] = NoLoc]
            /\ replies' = [replies EXCEPT ![p] = <<Reply("saved", args[1], rt)>>]
            /\ ncmds' = ncmds + 1
            /\ UNCHANGED <<tasks, nextMid, now, movies, boot>>

\* ----------------------------------------------------------------- /clear
\* Up to and including SELECT COUNT(*).
ClearHandler(p, u, args) ==
    /\ Free(p)
    /\ LET c == Cmd("clear", u, args, NoReply) IN
       IF ~IsAdmin(u) THEN ReplyAndReturn(p, c, Reply("unauthorized", "", 0))
       ELSE IF args = <<>> THEN ReplyAndReturn(p, c, Reply("usage", "", 0))
       ELSE LET count == CountByCode(args[1]) IN
            IF count = 0 THEN ReplyAndReturn(p, c, Reply("none_found", args[1], 0))
            ELSE /\ pc' = [pc EXCEPT ![p] = "clear_delete"]
                 /\ cmd' = [cmd EXCEPT ![p] = c]
                 /\ loc' = [loc EXCEPT ![p] = [NoLoc EXCEPT !.count = count]]
                 /\ replies' = [replies EXCEPT ![p] = <<>>]
                 /\ ncmds' = ncmds + 1
                 /\ UNCHANGED <<store, seq, tasks, nextMid, now, hist, movies, boot>>

\* DELETE FROM movie_items WHERE movie_id = ?
DeleteByCodeAll(movie_id) == {}
DeleteByCode(movie_id) == store \ RowsOf(movie_id)

\* DELETE, commit and the "Cleared <count> items" reply.
ClearDelete(p) ==
    /\ pc[p] = "clear_delete"
    /\ LET movie_id == cmd[p].args[1] IN
       /\ store' = DeleteByCode(movie_id)
       /\ hist' = [hist EXCEPT ![movie_id] = <<>>]
       /\ loc' = [loc EXCEPT ![p].removed = CountByCode(movie_id)]
       /\ replies' = [replies EXCEPT ![p] = <<Reply("cleared", movie_id, loc[p].count)>>]
       /\ pc' = [pc EXCEPT ![p] = "done"]
    /\ UNCHANGED <<seq, cmd, tasks, nextMid, now, ncmds, movies, boot>>

\* ------------------------------------------------------------------ /list
\* SELECT movie_id, COUNT(*) FROM movie_items GROUP BY movie_id
CountsByCodeDistinct ==
    {<<c, Cardinality({r.from_message_id : r \in RowsOf(c)})>> : c \in {r.movie_id : r \in store}}
CountsByCode == {<<c, CountByCode(c)>> : c \in {r.movie_id : r \in store}}

ListHandler(p, u) ==
    /\ Free(p)
    /\ LET c == Cmd("list", u, <<>>, NoReply) IN
       IF ~IsAdmin(u) THEN ReplyAndReturn(p, c, Reply("unauthorized", "", 0))
       ELSE IF CountsByCode = {} THEN ReplyAndReturn(p, c, Reply("no_items", "", 0))
       ELSE ReplyAndReturn(p, c, Reply("listing", "", CountsByCode))

\* ----------------------------------------------------------------- /start
\* `if not rows:`
NotRowsNever(rows) == FALSE
NotRows(rows) == rows = <<>>

\* Up to and including the SELECT that fetches the rows of the code.
StartHandler(p, u, args) ==
    /\ Free(p)
    /\ LET c == Cmd("start", u, args, NoReply) IN
       IF args = <<>> THEN ReplyAndReturn(p, c, Reply("open_from_button", "", 0))
       ELSE LET rows == FindByCode(args[1]) IN
            IF NotRows(rows) THEN ReplyAndReturn(p, c, Reply("not_found", args[1], 0))
            ELSE \* `for item in rows` over no rows ends at once: nothing was sent
                 /\ pc' = [pc EXCEPT ![p] = IF Len(rows) = 0 THEN "done" ELSE "copy"]
                 /\ cmd' = [cmd EXCEPT ![p] = c]
                 /\ loc' = [loc EXCEPT ![p] = [NoLoc EXCEPT !.rows = rows, !.idx = 1,
                                                            !.snap = hist[args[1]]]]
                 /\ replies' = [replies EXCEPT ![p] = <<>>]
                 /\ ncmds' = ncmds + 1
                 /\ UNCHANGED <<store, seq, tasks, nextMid, now, hist, movies, boot>>

\* sent_messages.append((user_chat_id, sent.message_id))
AppendSent(lst, chat_id, message_id) ==
    Append(lst, [chat_id |-> chat_id, message_id |-> message_id])

\* asyncio.create_task(delete_later(sent_messages, AUTO_DELETE_SECONDS)):
\* the task starts in asyncio.sleep(delay).
\* History, read by no action: attempts (the delete_message calls), created
\* (the time of create_task).
NewTaskNoSleep(lst, delay) ==
    [lst |-> lst, wake |-> now, i |-> 1, state |-> "sleeping",
     attempts |-> <<>>, created |-> now]
NewTask(lst, delay) ==
    [lst |-> lst, wake |-> now + delay, i |-> 1, state |-> "sleeping",
     attempts |-> <<>>, created |-> now]

\* for item in rows
ItemAtReversed(rows, idx) == rows[Len(rows) + 1 - idx]
ItemAt(rows, idx) == rows[idx]

\* `if sent_messages:` after the loop
ScheduleNeeded(lst) == lst # <<>>

\* The end of one loop iteration: the next item, or the end of the loop and
\* with it the scheduling of delete_later (no await lies between them).
LoopNextAwait(p, l) ==
    IF l.idx < Len(l.rows)
    THEN /\ loc' = [loc EXCEPT ![p] = [l EXCEPT !.idx = l.idx + 1]]
         /\ pc' = [pc EXCEPT ![p] = "copy"]
         /\ UNCHANGED tasks
    ELSE /\ loc' = [loc EXCEPT ![p] = l]
         /\ pc' = [pc EXCEPT ![p] = IF ScheduleNeeded(l.sent_messages)
                                    THEN "await_delete" ELSE "done"]
         /\ tasks' = IF ScheduleNeeded(l.sent_messages)
                     THEN Append(tasks, NewTask(l.sent_messages, DeleteDelayTicks)
                                          @@ [run |-> l.copies])
                     ELSE tasks
LoopNext(p, l) ==
    IF l.idx < Len(l.rows)
    THEN /\ loc' = [loc EXCEPT ![p] = [l EXCEPT !.idx = l.idx + 1]]
         /\ pc' = [pc EXCEPT ![p] = "copy"]
         /\ UNCHANGED tasks
    ELSE /\ loc' = [loc EXCEPT ![p] = l]
         /\ pc' = [pc EXCEPT ![p] = "done"]
         /\ tasks' = IF ScheduleNeeded(l.sent_messages)
                     THEN Append(tasks, NewTask(l.sent_messages, DeleteDelayTicks)
                                          @@ [run |-> l.copies])
                     ELSE tasks

\* bot.copy_message for rows[idx]: it returns the new message or raises.
StartCopy(p, ok) ==
    /\ pc[p] = "copy"
    /\ LET item == ItemAt(loc[p].rows, loc[p].idx)
           chat == cmd[p].chat
           mid == IF ok THEN nextMid[chat] + 1 ELSE 0
           l == [loc[p] EXCEPT !.copies = Append(@, [id |-> item.id, from |-> Ref(item),
                                                     at |-> now, ok |-> ok, mid |-> mid])]
       IN IF ok
          THEN /\ nextMid' = [nextMid EXCEPT ![chat] = @ + 1]
               /\ loc' = [loc EXCEPT ![p] =
                            [l EXCEPT !.sent_messages = AppendSent(@, chat, mid),
                                      !.wake = now + ThrottleTicks]]
               /\ pc' = [pc EXCEPT ![p] = "sleep"]
          ELSE /\ loc' = [loc EXCEPT ![p] = l]
               /\ pc' = [pc EXCEPT ![p] = "notify"]
               /\ UNCHANGED nextMid
    /\ UNCHANGED <<store, seq, cmd, replies, tasks, now, ncmds, hist, movies, boot>>

\* asyncio.sleep(0.5) after a successful copy returns.
StartSleepDone(p) ==
    /\ pc[p] = "sleep"
    /\ now >= loc[p].wake
    /\ LoopNext(p, loc[p])
    /\ UNCHANGED <<store, seq, cmd, replies, nextMid, now, ncmds, hist, movies, boot>>

\* The except branch: bot.send_message with the failure notice.  When it
\* raises as well, the exception leaves the loop and the handler.
StartNotify(p, ok) ==
    /\ pc[p] = "notify"
    /\ IF ok
       THEN /\ replies' = [replies EXCEPT
                             ![p] = Append(@, Reply("failed_item", cmd[p].args[1], 0))]
            /\ LoopNext(p, loc[p])
       ELSE /\ pc' = [pc EXCEPT ![p] = "raised"]
            /\ UNCHANGED <<replies, loc, tasks>>
    /\ UNCHANGED <<store, seq, cmd, nextMid, now, ncmds, hist, movies, boot>>

\* ----------------------------------------------------------- delete_later
\* One iteration of `for chat_id, message_id in lst`: bot.delete_message is
\* attempted and an exception it raises is passed over.  The first
\* iteration runs when asyncio.sleep(delay) returns.
AfterDeleteAbort(t, ok) ==
    IF ok /\ t.i < Len(t.lst) THEN [t EXCEPT !.i = t.i + 1, !.state = "running"]
    ELSE [t EXCEPT !.i = t.i + 1, !.state = "done"]
AfterDeleteOnce(t, ok) == [t EXCEPT !.i = t.i + 1, !.state = "done"]
AfterDelete(t, ok) ==
    IF t.i < Len(t.lst) THEN [t EXCEPT !.i = t.i + 1, !.state = "running"]
    ELSE [t EXCEPT !.i = t.i + 1, !.state = "done"]

DeleteStep(k, ok) ==
    /\ k \in 1..Len(tasks)
    /\ tasks[k].state # "done"
    /\ now >= tasks[k].wake
    /\ LET t == tasks[k]
           a == [chat_id |-> t.lst[t.i].chat_id, message_id |-> t.lst[t.i].message_id,
                 ok |-> ok, at |-> now]
       IN tasks' = [tasks EXCEPT ![k] = AfterDelete([t EXCEPT !.attempts = Append(@, a)], ok)]
    /\ UNCHANGED <<store, seq, pc, cmd, loc, replies, nextMid, now, ncmds, hist, movies, boot>>

\* ------------------------------------------------------------------ clock
\* The wake-up times of everything that stands in asyncio.sleep.
Wakes == {loc[p].wake : p \in {q \in Procs : pc[q] = "sleep"}}
         \cup {tasks[k].wake : k \in {j \in 1..Len(tasks) : tasks[j].state = "sleeping"}}

\* Time passes up to the next wake-up; a sleeper that is due runs first.
Advance ==
    /\ Wakes # {}
    /\ \A w \in Wakes : w > now
    /\ now' = Min(Wakes)
    /\ UNCHANGED <<store, seq, pc, cmd, loc, replies, tasks, nextMid, ncmds, hist, movies, boot>>

Next ==
    \/ \E p \in Procs, u \in Users, args \in ArgSets, rt \in ReplyTargets :
          SaveHandler(p, u, args, rt)
    \/ \E p \in Procs, u \in Users, args \in ArgSets : ClearHandler(p, u, args)
    \/ \E p \in Procs : ClearDelete(p)
    \/ \E p \in Procs, u \in Users : ListHandler(p, u)
    \/ \E p \in Procs, u \in Users, args \in ArgSets : StartHandler(p, u, args)
    \/ \E p \in Procs, ok \in BOOLEAN : StartCopy(p, ok)
    \/ \E p \in Procs : StartSleepDone(p)
    \/ \E p \in Procs, ok \in BOOLEAN : StartNotify(p, ok)
    \/ \E k \in 1..Len(tasks), ok \in BOOLEAN : DeleteStep(k, ok)
    \/ Advance

Spec == Init /\ [][Next]_vars

\* The event loop runs every callback that is ready: a timer that is due
\* fires, and a coroutine whose sleep or transport call has returned goes on.
FairSpec ==
    /\ Spec
    /\ WF_vars(Advance)
    /\ WF_vars(\E p \in Procs : StartSleepDone(p))
    /\ WF_vars(\E k \in 1..MaxCmds, ok \in BOOLEAN : DeleteStep(k, ok))

\* ------------------------------------------------------------- properties
IsStart(p) == cmd[p].name = "start"
IsClear(p) == cmd[p].name = "clear"
\* The slot that receives the command arriving in this step.
Arrives(p) == Free(p) /\ ncmds' = ncmds + 1
Unauthorized == Reply("unauthorized", "", 0)

\* C1: for every code c, the rows the lookup of start(c) returns are the
\* references saved under c since c was last empty, one row per save and in
\* the order of the saves, whatever was saved or cleared under other codes.
C1_LookupIsInsertionHistory ==
    \A c \in Codes : RefsOf(FindByCode(c)) = hist[c]

\* A start has fetched two different references saved under its code.
C1_Witness ==
    \E p \in Procs :
        /\ IsStart(p) /\ pc[p] = "copy"
        /\ Len(loc[p].rows) = 2
        /\ RefsOf(loc[p].rows) = hist[cmd[p].args[1]]
        /\ loc[p].rows[1].from_message_id # loc[p].rows[2].from_message_id

\* C2: a save, clear or list from a caller other than the admin ends in the
\* step it arrives in, with the unauthorized reply as its only reply, and
\* leaves the table, its id sequence and the delete tasks as they were.
C2_NonAdminRejected ==
    [][\A p \in Procs :
          (Arrives(p) /\ cmd'[p].name \in {"save", "clear", "list"}
                      /\ cmd'[p].user # ADMIN_ID)
          => /\ store' = store /\ seq' = seq /\ tasks' = tasks
             /\ pc'[p] = "done"
             /\ replies'[p] = <<Unauthorized>>]_vars

\* A caller other than the admin asked to clear a code that has rows.
C2_Witness ==
    \E p \in Procs :
        /\ IsClear(p) /\ cmd[p].user # ADMIN_ID /\ pc[p] = "done"
        /\ cmd[p].args # <<>> /\ RowsOf(cmd[p].args[1]) # {}
        /\ replies[p] = <<Unauthorized>>

\* A delivery run: a start that fetched rows; it is over when the handler
\* returned or an exception left it.
RunOver(p) == IsStart(p) /\ cmd[p].args # <<>> /\ pc[p] \in {"done", "raised"}
Scheduled(p) == \E k \in 1..Len(tasks) : tasks[k].lst = loc[p].sent_messages
IdsOf(rows) == [i \in 1..Len(rows) |-> rows[i].id]
CopiedIds(p) == [i \in 1..Len(loc[p].copies) |-> loc[p].copies[i].id]

\* C3: a delivery run over K fetched rows calls copy_message K times, once
\* per row, whichever copies fail and also when sending a failure notice
\* fails.
C3_EveryItemCopied ==
    \A p \in Procs : RunOver(p) => CopiedIds(p) = IdsOf(loc[p].rows)

\* C4: when a delivery run is over, delete_later was scheduled for its
\* delivered messages if and only if the run delivered at least one message.
C4_ScheduledIffDelivered ==
    \A p \in Procs : RunOver(p) => (Scheduled(p) <=> loc[p].sent_messages # <<>>)

DeleteTargets(t) ==
    [i \in 1..Len(t.attempts) |->
        [chat_id |-> t.attempts[i].chat_id, message_id |-> t.attempts[i].message_id]]
DeliveredBy(copies) ==
    LET okCopies == SelectSeq(copies, LAMBDA c : c.ok)
    IN [i \in 1..Len(okCopies) |-> okCopies[i].mid]
MidsOf(lst) == [i \in 1..Len(lst) |-> lst[i].message_id]

\* C5: the delete pass of a run goes over the messages the run delivered,
\* in order and one attempt each, whether an attempt fails or not: what it
\* has attempted so far is a prefix of the delivered messages, and when the
\* pass is over it is all of them.
C5_DeletePassAttemptsEachOnce ==
    \A k \in 1..Len(tasks) :
        LET t == tasks[k] IN
        /\ MidsOf(t.lst) = DeliveredBy(t.run)
        /\ Len(t.attempts) <= Len(t.lst)
        /\ DeleteTargets(t) = SubSeq(t.lst, 1, Len(t.attempts))
        /\ t.state = "done" <=> Len(t.attempts) = Len(t.lst)
        /\ t.state = "sleeping" <=> t.attempts = <<>>

\* A pass over two delivered messages is over; its first delete failed.
C5_Witness ==
    \E k \in 1..Len(tasks) :
        /\ tasks[k].state = "done"
        /\ Len(tasks[k].lst) = 2 /\ Len(tasks[k].attempts) = 2
        /\ ~tasks[k].attempts[1].ok

\* C6: a start for a code without rows ends in the step that looks the code
\* up: not-found is its only reply, no copy_message is called, no delete
\* task is created and the table stays as it was.
C6_EmptyDeliveryIsTerminal ==
    [][\A p \in Procs :
          (Arrives(p) /\ cmd'[p].name = "start" /\ cmd'[p].args # <<>>
                      /\ RowsOf(cmd'[p].args[1]) = {})
          => /\ store' = store /\ seq' = seq /\ tasks' = tasks
             /\ nextMid' = nextMid
             /\ pc'[p] = "done"
             /\ loc'[p].copies = <<>>
             /\ replies'[p] = <<Reply("not_found", cmd'[p].args[1], 0)>>]_vars

\* A start for a code without rows got not-found while the table held the
\* rows of another code.
C6_Witness ==
    \E p \in Procs :
        /\ RunOver(p) /\ pc[p] = "done"
        /\ replies[p] = <<Reply("not_found", cmd[p].args[1], 0)>>
        /\ store # {} /\ seq >= 2

AdminClear(c) == c.name = "clear" /\ c.user = ADMIN_ID /\ c.args # <<>>

\* C7: the DELETE of an admin clear(c) leaves no row of c and leaves the
\* rows of every other code, and their order, as they were; an admin
\* clear(c) that answers none-found met no row of c and changes nothing.
C7_ClearRemovesExactlyTheCode ==
    [][\A p \in Procs :
          /\ (pc[p] = "clear_delete" /\ pc'[p] # "clear_delete")
             => /\ RowsIn(store', cmd[p].args[1]) = {}
                /\ \A d \in Codes \ {cmd[p].args[1]} :
                      SortById(RowsIn(store', d)) = SortById(RowsIn(store, d))
          /\ (Arrives(p) /\ AdminClear(cmd'[p]) /\ pc'[p] = "done")
             => /\ store' = store
                /\ RowsIn(store, cmd'[p].args[1]) = {}]_vars

\* An admin clear removed the rows of its code and another code kept its row.
C7_Witness ==
    \E p \in Procs :
        /\ IsClear(p) /\ pc[p] = "done" /\ loc[p].removed > 0
        /\ RowsOf(cmd[p].args[1]) = {}
        /\ store # {}

StrictlyAscending(q) == \A i, j \in 1..Len(q) : i < j => q[i] < q[j]

\* C9: a delivery run fetched the rows of its code in insertion order and
\* calls copy_message on them in that order, each row once, without
\* skipping one; the delivered messages are the successful copies in the
\* order of the calls, so they reach the requester, with ascending message
\* ids, in the order of the rows they were copied from.
C9_DeliveredInInsertionOrder ==
    \A p \in Procs :
        (IsStart(p) /\ cmd[p].args # <<>>)
        => /\ RefsOf(loc[p].rows) = loc[p].snap
           /\ StrictlyAscending(IdsOf(loc[p].rows))
           /\ Len(loc[p].copies) <= Len(loc[p].rows)
           /\ CopiedIds(p) = SubSeq(IdsOf(loc[p].rows), 1, Len(loc[p].copies))
           /\ MidsOf(loc[p].sent_messages) = DeliveredBy(loc[p].copies)
           /\ StrictlyAscending(MidsOf(loc[p].sent_messages))
           /\ \A i \in 1..Len(loc[p].sent_messages) :
                 loc[p].sent_messages[i].chat_id = cmd[p].chat

\* A run delivered two rows that hold different references.
C9_Witness ==
    \E p \in Procs :
        /\ RunOver(p) /\ pc[p] = "done"
        /\ Len(loc[p].sent_messages) = 2
        /\ loc[p].rows[1].from_message_id # loc[p].rows[2].from_message_id

LastCopy(t) == t.run[Len(t.run)]
PassStarted(t) == t.attempts # <<>>

\* C10 as claimed: the delete pass of a run starts exactly
\* AUTO_DELETE_SECONDS after the last copy_message of the run finished, and
\* attempts no delete before that.
C10_PassStartsDelayAfterLastCopy ==
    \A k \in 1..Len(tasks) :
        PassStarted(tasks[k])
        => /\ tasks[k].attempts[1].at = LastCopy(tasks[k]).at + DeleteDelayTicks
           /\ \A i \in 1..Len(tasks[k].attempts) :
                 tasks[k].attempts[i].at >= LastCopy(tasks[k]).at + DeleteDelayTicks

\* C10 as amended: the delete pass of a run starts once, exactly
\* AUTO_DELETE_SECONDS after the loop of the run ended and the task was
\* created; the loop ends one throttle sleep (0.5 s) after the last
\* copy_message when that copy succeeded and not before it otherwise, so no
\* delete is attempted earlier than AUTO_DELETE_SECONDS after the last copy.
C10_PassStartsDelayAfterLoop ==
    \A k \in 1..Len(tasks) :
        LET t == tasks[k] IN
        /\ t.created >= LastCopy(t).at
        /\ LastCopy(t).ok => t.created = LastCopy(t).at + ThrottleTicks
        /\ ~PassStarted(t) => now <= t.created + DeleteDelayTicks
        /\ PassStarted(t)
           => /\ t.attempts[1].at = t.created + DeleteDelayTicks
              /\ \A i \in 1..Len(t.attempts) :
                    t.attempts[i].at >= LastCopy(t).at + DeleteDelayTicks

\* A pass started 120.5 s after a last copy that succeeded.
C10_Witness ==
    \E k \in 1..Len(tasks) :
        /\ PassStarted(tasks[k])
        /\ LastCopy(tasks[k]).ok
        /\ tasks[k].attempts[1].at = LastCopy(tasks[k]).at + ThrottleTicks + DeleteDelayTicks

AdminSave(c) == c.name = "save" /\ c.user = ADMIN_ID
\* The rows of table S that hold what the save command c asks to store.
Holding(S, c) ==
    {r \in S : /\ r.movie_id = c.args[1]
               /\ r.from_chat_id = c.chat
               /\ r.from_message_id = c.reply_to}

\* C11: an admin save without a code or not sent as a reply gets a usage
\* reply and leaves the table as it was; any other admin save adds one row,
\* with a new id, that holds the code, the chat of the command and the id of
\* the replied-to message, and keeps every row the table had.
C11_SaveNeedsCodeAndReply ==
    [][\A p \in Procs :
          (Arrives(p) /\ AdminSave(cmd'[p]))
          => /\ pc'[p] = "done"
             /\ IF cmd'[p].args = <<>> \/ cmd'[p].reply_to = NoReply
                THEN /\ store' = store /\ seq' = seq
                     /\ Len(replies'[p]) = 1
                     /\ replies'[p][1].kind \in {"usage", "usage_reply"}
                ELSE /\ store \subseteq store'
                     /\ Cardinality(store' \ store) = 1
                     /\ store' \ store \subseteq Holding(store', cmd'[p])
                     /\ \A r \in store' \ store, q \in store : r.id # q.id
                     /\ replies'[p] =
                           <<Reply("saved", cmd'[p].args[1], cmd'[p].reply_to)>>]_vars

\* An admin save added a row to a table that held rows already.
C11_Witness ==
    \E p \in Procs :
        /\ AdminSave(cmd[p]) /\ pc[p] = "done"
        /\ cmd[p].args # <<>> /\ cmd[p].reply_to # NoReply
        /\ replies[p] = <<Reply("saved", cmd[p].args[1], cmd[p].reply_to)>>
        /\ Cardinality(store) >= 2
        /\ Holding(store, cmd[p]) # {}

\* A step of a delivery run, of a list or of a delete pass, or the passing
\* of time.
ReadOnlyStep ==
    \/ \E p \in Procs : Arrives(p) /\ cmd'[p].name \in {"start", "list"}
    \/ \E p \in Procs : pc[p] \in {"copy", "sleep", "notify"} /\ pc'[p] # pc[p]
    \/ tasks' # tasks
    \/ now' # now

\* C12: start, list, the delete pass and the passing of time leave the
\* table as it was; a row keeps its fields as long as it is in the table;
\* and a row leaves the table only in the DELETE of an admin clear of the
\* row's code.
C12_ItemsLeaveOnlyByClear ==
    [][/\ ReadOnlyStep => store' = store /\ seq' = seq
       /\ \A r \in store, q \in store' : r.id = q.id => r = q
       /\ \A r \in store \ store' :
             \E p \in Procs : /\ pc[p] = "clear_delete" /\ pc'[p] = "done"
                              /\ AdminClear(cmd[p])
                              /\ cmd[p].args[1] = r.movie_id]_vars

\* The delete pass of a run is over and the rows the run copied are still
\* in the table.
C12_Witness ==
    \E p \in Procs, k \in 1..Len(tasks) :
        /\ RunOver(p) /\ pc[p] = "done" /\ loc[p].sent_messages # <<>>
        /\ tasks[k].lst = loc[p].sent_messages /\ tasks[k].state = "done"
        /\ \A i \in 1..Len(loc[p].rows) : loc[p].rows[i] \in store

RECURSIVE SumCounts(_)
SumCounts(S) ==
    IF S = {} THEN 0
    ELSE LET x == CHOOSE y \in S : TRUE IN x[2] + SumCounts(S \ {x})

\* C13: an admin list answers no-items exactly when the table is empty;
\* otherwise it reports, for every code with rows and for no other code,
\* the number of saves under the code since the code was last cleared, and
\* the reported numbers add up to the number of rows in the table.
C13_ListReportsCounts ==
    [][\A p \in Procs :
          (Arrives(p) /\ cmd'[p].name = "list" /\ cmd'[p].user = ADMIN_ID)
          => /\ pc'[p] = "done"
             /\ Len(replies'[p]) = 1
             /\ IF store = {}
                THEN replies'[p][1] = Reply("no_items", "", 0)
                ELSE /\ replies'[p][1].kind = "listing"
                     /\ replies'[p][1].n =
                           {<<c, Len(hist[c])>> : c \in {d \in Codes : hist[d] # <<>>}}
                     /\ SumCounts(replies'[p][1].n) = Cardinality(store)]_vars

\* An admin list reported a code with two rows.
C13_Witness ==
    \E p \in Procs :
        /\ cmd[p].name = "list" /\ cmd[p].user = ADMIN_ID /\ pc[p] = "done"
        /\ replies[p][1].kind = "listing"
        /\ \E x \in replies[p][1].n : x[2] = 2

ValidSave(c) == AdminSave(c) /\ c.args # <<>> /\ c.reply_to # NoReply
\* Slot q holds the update received last, and its handler has returned.
LatestDone(q) == ncmds > 0 /\ cmd[q].update_id = ncmds /\ pc[q] = "done"

\* C14: an admin clear(c) that directly follows an admin clear(c) finds
\* nothing and leaves the table as the first one left it; a list leaves
\* the table as it was; an admin save always adds one row to the rows that
\* hold the same code and message, so a save that repeats the one before
\* it leaves one more such row, with an id of its own.
C14_ClearListIdempotentSaveAppends ==
    [][\A p \in Procs :
          /\ (/\ Arrives(p) /\ AdminClear(cmd'[p])
              /\ \E q \in Procs : /\ LatestDone(q) /\ AdminClear(cmd[q])
                                  /\ cmd[q].args = cmd'[p].args)
             => /\ store' = store /\ seq' = seq
                /\ replies'[p] = <<Reply("none_found", cmd'[p].args[1], 0)>>
          /\ (Arrives(p) /\ cmd'[p].name = "list")
             => store' = store /\ seq' = seq
          /\ (Arrives(p) /\ ValidSave(cmd'[p]))
             => /\ Cardinality(Holding(store', cmd'[p]))
                      = Cardinality(Holding(store, cmd'[p])) + 1
                /\ \A r \in Holding(store', cmd'[p]), q \in Holding(store', cmd'[p]) :
                      r.id = q.id => r = q]_vars

\* The same admin save was handled twice and the table holds two rows with
\* its code and message.
C14_Witness ==
    \E q \in Procs :
        /\ LatestDone(q) /\ ValidSave(cmd[q])
        /\ Cardinality(Holding(store, cmd[q])) = 2

\* C15: in a delivery run, a copy_message call comes at least 0.5 s after
\* the call before it, whether that call delivered its message or raised.
C15_CopiesThrottled ==
    \A p \in Procs :
        (IsStart(p) /\ cmd[p].args # <<>>)
        => \A i \in 1..(Len(loc[p].copies) - 1) :
              loc[p].copies[i + 1].at >= loc[p].copies[i].at + ThrottleTicks

Notices(p) == SelectSeq(replies[p], LAMBDA r : r.kind = "failed_item")
FailedCopies(p) == SelectSeq(loc[p].copies, LAMBDA c : ~c.ok)

\* C16: when a delivery run over K rows is over, the requester got one
\* failure notice for every copy_message that raised and none for the
\* others, so the delivered messages and the notices together are K.
C16_EveryFailureNoticedOnce ==
    \A p \in Procs :
        RunOver(p)
        => /\ Len(Notices(p)) = Len(FailedCopies(p))
           /\ Len(loc[p].sent_messages) + Len(Notices(p)) = Len(loc[p].rows)

TimerPending == \E k \in 1..Len(tasks) : tasks[k].state = "sleeping"

\* With a delete timer pending, a running handler can take its next step
\* (a sleeping one once its own 0.5 s have passed), and a new save, clear,
\* list or start is taken up by a handler.
NotBlockedByTimer ==
    TimerPending
    => /\ \A p \in Procs :
             /\ pc[p] = "copy" => ENABLED StartCopy(p, TRUE)
             /\ pc[p] = "notify" => ENABLED StartNotify(p, TRUE)
             /\ pc[p] = "clear_delete" => ENABLED ClearDelete(p)
             /\ (pc[p] = "sleep" /\ now >= loc[p].wake) => ENABLED StartSleepDone(p)
       /\ (ncmds < MaxCmds /\ \E p \in Procs : Ended(p))
          => \E p \in Procs :
                /\ ENABLED SaveHandler(p, ADMIN_ID, <<"a">>, 1)
                /\ ENABLED ClearHandler(p, ADMIN_ID, <<"a">>)
                /\ ENABLED ListHandler(p, ADMIN_ID)
                /\ ENABLED StartHandler(p, 2, <<"a">>)

\* C17: the step of a start that creates the delete task is the step in
\* which the start returns: the task is left sleeping until
\* AUTO_DELETE_SECONDS later, no delete has been attempted and no time has
\* passed; and while a timer is pending no handler is held up by it.
C17_FireAndForget ==
    /\ []NotBlockedByTimer
    /\ [][Len(tasks') > Len(tasks)
          => /\ Len(tasks') = Len(tasks) + 1
             /\ now' = now
             /\ tasks'[Len(tasks')].state = "sleeping"
             /\ tasks'[Len(tasks')].attempts = <<>>
             /\ tasks'[Len(tasks')].wake = now + DeleteDelayTicks
             /\ \E p \in Procs :
                   /\ pc[p] \in {"sleep", "notify"} /\ pc'[p] = "done"
                   /\ tasks'[Len(tasks')].lst = loc'[p].sent_messages]_vars

\* With the timer of a finished start pending, an admin clear that arrived
\* after it removed the rows and returned.
C17_Witness ==
    /\ TimerPending
    /\ pc[2] = "idle"
    /\ pc[1] = "done" /\ AdminClear(cmd[1]) /\ loc[1].removed > 0

\* C18: no step takes a delete task away or changes the messages it is to
\* delete or the time it wakes at; the only change to a task is its own
\* next delete attempt, on the next of its messages; and every task that
\* exists in the end has attempted to delete every one of its messages.
C18_TimerNotCancelled ==
    /\ [][/\ Len(tasks') >= Len(tasks)
          /\ \A k \in 1..Len(tasks) :
                /\ tasks'[k].lst = tasks[k].lst
                /\ tasks'[k].wake = tasks[k].wake
                /\ \/ tasks'[k] = tasks[k]
                   \/ /\ now >= tasks[k].wake
                      /\ Len(tasks'[k].attempts) = Len(tasks[k].attempts) + 1
                      /\ DeleteTargets(tasks'[k])
                            = SubSeq(tasks[k].lst, 1, Len(tasks'[k].attempts))]_vars
    /\ \A k \in 1..MaxCmds :
          (k <= Len(tasks)) ~> (k <= Len(tasks) /\ DeleteTargets(tasks[k]) = tasks[k].lst)

\* After a start was served, an admin clear removed the rows of the code;
\* the delete pass of the start still went over its message.
C18_Witness ==
    /\ pc[2] = "idle"
    /\ pc[1] = "done" /\ AdminClear(cmd[1]) /\ loc[1].removed > 0
    /\ \E k \in 1..Len(tasks) :
          tasks[k].state = "done" /\ DeleteTargets(tasks[k]) = tasks[k].lst

CopiedRefs(p) == [i \in 1..Len(loc[p].copies) |-> loc[p].copies[i].from]

\* C19: when a delivery run is over, the references it called copy_message
\* on are exactly the references that were stored under the code when the
\* run looked the code up, whatever was saved or cleared under the code
\* during the run.
C19_RunCopiesItsSnapshot ==
    \A p \in Procs : RunOver(p) => CopiedRefs(p) = loc[p].snap

MigratedRef(r) ==
    [movie_id |-> r.movie_id, from_chat_id |-> r.from_chat_id,
     from_message_id |-> r.from_message_id]
Migrated(rows) == [i \in 1..Len(rows) |-> MigratedRef(rows[i])]

\* C20: once init_db has run, the legacy table is gone and movie_items
\* holds every legacy row exactly once, however often init_db runs again
\* and also when a statement of the migration raised.
C20_MigratedExactlyOnce ==
    boot.runs >= 1
    => /\ movies = NoTable
       /\ Migrated(SortById(store)) = Migrated(boot.orig)
====
